---- MODULE Spec2Model ----
(***************************************************************************)
(* A model of the Couchbase access layer in src/src/utils/couchbase_db.rs  *)
(* and of its napi entry points in src/src/lib.rs: the lazily created      *)
(* cluster connection, the bucket-handle cache behind a tokio RwLock, the  *)
(* single-document operations with their recursive retry, the two batch    *)
(* reads and the read-then-upsert counter.                                 *)
(*                                                                         *)
(* The remote store is the driver's: a document per (bucket, key) with a   *)
(* value and a revision (CAS) that every successful mutation renews.  A    *)
(* store call either gets the store's answer or fails transiently          *)
(* ("Timeout": the network or the 120 s operation timeout); a call that    *)
(* fails transiently has not been applied.                                 *)
(*                                                                         *)
(* Every async function is cut at its await points: one action per store   *)
(* call, lock acquisition or sleep.                                        *)
(***************************************************************************)
EXTENDS Integers, Sequences, FiniteSets

\* ------------------------------------------------------------- bounds
\* Successful mutations of the store in one behaviour.
MaxCas == 2
\* Transient store failures in one behaviour.
MaxFaults == 1
\* Retry arguments 0..MaxRetryArg of add_document/replace_document called
\* directly (the napi entry points always pass PublicRetries).
MaxRetryArg == 1
\* Length of the key list of a batch read.
MaxKeys == 2
\* Largest counter seed and explicit initial counter value.
MaxCounter == 2
\* Successful upserts of the counter in one behaviour.
MaxUpserts == 3
\* Tasks that exist (the sequential specifications run task 1 only).
NTasks == 2
\* Direct calls of create_cluster_connection in one behaviour.
MaxConnects == 3

\* ---------------------------------------------------- program constants
\* Some(5) at the napi entry points; retry.unwrap_or(5) inside.
PublicRetries == 5

Tasks == 1..NTasks
Buckets == {"b1", "b2"}
Keys == {"k1", "k2"}
NoCas == -1
NoInit == -1
RetryArgs == 0..MaxRetryArg

\* ------------------------------------------------------- JSON values
\* serde_json::Value, as far as the code tells values apart: a number, a
\* string (its characters), or anything else (an object).
Num(n) == [t |-> "num", n |-> n, s |-> <<>>]
Str(s) == [t |-> "str", n |-> 0, s |-> s]
Obj(i) == [t |-> "obj", n |-> i, s |-> <<>>]
NoVal == [t |-> "none", n |-> 0, s |-> <<>>]

DigitChars == <<"0", "1", "2", "3", "4", "5", "6", "7", "8", "9">>

RECURSIVE NatToString(_)
NatToString(n) ==
    IF n < 10 THEN <<DigitChars[n + 1]>>
    ELSE Append(NatToString(n \div 10), DigitChars[(n % 10) + 1])

\* Integer to_string(): decimal digits, "-" in front of a negative number.
ToString(n) == IF n < 0 THEN <<"-">> \o NatToString(-n) ELSE NatToString(n)

DigitOf(c) == CHOOSE d \in 0..9 : DigitChars[d + 1] = c
IsDigit(c) == \E d \in 0..9 : DigitChars[d + 1] = c

RECURSIVE DigitsValue(_)
DigitsValue(s) ==
    IF s = <<>> THEN 0
    ELSE 10 * DigitsValue(SubSeq(s, 1, Len(s) - 1)) + DigitOf(s[Len(s)])

\* str::parse::<i64>(): an optional sign, then at least one digit and
\* nothing else.
ParseI64(s) ==
    LET signed == Len(s) > 0 /\ s[1] \in {"+", "-"}
        body == IF signed THEN SubSeq(s, 2, Len(s)) ELSE s
    IN  IF body = <<>> \/ \E i \in 1..Len(body) : ~IsDigit(body[i])
        THEN [ok |-> FALSE, n |-> 0]
        ELSE [ok |-> TRUE,
              n |-> IF signed /\ s[1] = "-" THEN -DigitsValue(body)
                    ELSE DigitsValue(body)]

\* doc.content::<i64>() and doc.content::<String>().
ContentI64(v) == [ok |-> v.t = "num", n |-> v.n]
ContentString(v) == [ok |-> v.t = "str", s |-> v.s]

\* ------------------------------------------------------------ errors
\* error.to_string() of a store error is its kind.
StoreErr(kind) == [kind |-> kind, marker |-> FALSE, ctx |-> "store", prefix |-> ""]
\* format!("Error in ... : {:?}... retry limit reached", error.to_string())
RetryLimit(e, ctx) == [kind |-> e.kind, marker |-> TRUE, ctx |-> ctx, prefix |-> ""]
NoErr == [kind |-> "none", marker |-> FALSE, ctx |-> "none", prefix |-> ""]

Ok(v) == [ok |-> TRUE, val |-> v, err |-> NoErr]
Err(e) == [ok |-> FALSE, val |-> NoVal, err |-> e]
NoRes == [ok |-> FALSE, val |-> NoVal, err |-> NoErr]
OkTrue == Ok([t |-> "bool", n |-> 1, s |-> <<>>])
OkMsg(what, k, b) == Ok([t |-> "msg", what |-> what, key |-> k, bucket |-> b])

\* ------------------------------------------------------------- store
Absent == [ex |-> FALSE, val |-> NoVal, cas |-> 0]
Doc(v, c) == [ex |-> TRUE, val |-> v, cas |-> c]

VARIABLES
    store,      \* [Buckets -> [Keys -> document]]: the remote store
    casCtr,     \* the store's revision clock
    faults,     \* transient store failures so far
    envOk,      \* the three COUCHBASE_* environment variables are set
    cluster,    \* CB_CONNECTION: "uninit", "ready" or "poisoned"
    connects,   \* runs of create_cluster_connection that connected
    directs,    \* of which called directly, not by CB_CONNECTION's initializer
    pool,       \* BUCKET_CONNECTIONS: [Buckets -> handle, 0 when absent]
    rw,         \* its RwLock: readers, writer and the FIFO of waiters
    nHandles,   \* collection handles constructed so far
    task,       \* [Tasks -> the call a task is running and its locals]
    lastAdd,    \* observer: the last successful add, while unwritten
    scen        \* the scripted caller's position and the token it holds

vars == <<store, casCtr, faults, envOk, cluster, connects, directs, pool, rw,
          nHandles, task, lastAdd, scen>>
storeVars == <<store, casCtr, faults>>
connVars == <<envOk, cluster, connects, directs>>
poolVars == <<pool, rw, nHandles>>

\* A transient failure is possible while the fault budget lasts.
FaultChoices == IF faults < MaxFaults THEN {FALSE, TRUE} ELSE {FALSE}

\* db.get(key, ..)
StoreGet(b, k, fault) ==
    IF fault THEN [ok |-> FALSE, err |-> StoreErr("Timeout"), doc |-> Absent]
    ELSE IF ~store[b][k].ex
    THEN [ok |-> FALSE, err |-> StoreErr("DocumentNotFound"), doc |-> Absent]
    ELSE [ok |-> TRUE, err |-> NoErr, doc |-> store[b][k]]

\* db.insert(key, value, ..): insert-if-absent.
StoreInsert(b, k, v, fault) ==
    IF fault THEN [ok |-> FALSE, err |-> StoreErr("Timeout"), doc |-> store[b][k]]
    ELSE IF store[b][k].ex
    THEN [ok |-> FALSE, err |-> StoreErr("DocumentExists"), doc |-> store[b][k]]
    ELSE [ok |-> TRUE, err |-> NoErr, doc |-> Doc(v, casCtr + 1)]

\* db.replace(key, value, opt): conditioned on opt's cas when there is one.
StoreReplace(b, k, v, cas, fault) ==
    IF fault THEN [ok |-> FALSE, err |-> StoreErr("Timeout"), doc |-> store[b][k]]
    ELSE IF ~store[b][k].ex
    THEN [ok |-> FALSE, err |-> StoreErr("DocumentNotFound"), doc |-> store[b][k]]
    ELSE IF cas # NoCas /\ cas # store[b][k].cas
    THEN [ok |-> FALSE, err |-> StoreErr("CasMismatch"), doc |-> store[b][k]]
    ELSE [ok |-> TRUE, err |-> NoErr, doc |-> Doc(v, casCtr + 1)]

\* db.remove(key, ..)
StoreRemove(b, k, fault) ==
    IF fault THEN [ok |-> FALSE, err |-> StoreErr("Timeout"), doc |-> store[b][k]]
    ELSE IF ~store[b][k].ex
    THEN [ok |-> FALSE, err |-> StoreErr("DocumentNotFound"), doc |-> store[b][k]]
    ELSE [ok |-> TRUE, err |-> NoErr, doc |-> Absent]

\* db.upsert(key, value, ..): unconditional write.
StoreUpsert(b, k, v, fault) ==
    IF fault THEN [ok |-> FALSE, err |-> StoreErr("Timeout"), doc |-> store[b][k]]
    ELSE [ok |-> TRUE, err |-> NoErr, doc |-> Doc(v, casCtr + 1)]

\* The store after a call: the document written, the clock advanced by a
\* successful write, the fault counted.
ApplyStore(b, k, r, fault, writes) ==
    /\ store' = IF r.ok THEN [store EXCEPT ![b][k] = r.doc] ELSE store
    /\ casCtr' = IF r.ok /\ writes THEN casCtr + 1 ELSE casCtr
    /\ faults' = IF fault THEN faults + 1 ELSE faults

\* A write needs a fresh revision.
CanWrite == casCtr < MaxCas

\* ------------------------------------------------------------- tasks
\* A task runs one call at a time.  pc is its position:
\*   idle     no call
\*   resolve  get_bucket_connection: about to take the read lock
\*   rwait    queued for the read lock
\*   lookup   holds the read lock, about to look the bucket up
\*   construct  cache miss: about to build a handle from CB_CONNECTION
\*   wlock    about to take the write lock
\*   wwait    queued for the write lock
\*   insert   holds the write lock, about to insert its handle
\*   body     holds a handle, about to issue a store call
\*   cwrite   counter: value computed, about to upsert it
\*   delay    add/replace: in the 1 s sleep before the recursive retry
\*   done     the call has returned res
\*   panicked the call panicked (create_cluster_connection's expect)
IdleTask ==
    [pc |-> "idle", op |-> "none", bucket |-> "b1", key |-> "k1",
     val |-> NoVal, withCas |-> FALSE, cas |-> NoCas, init |-> NoInit,
     keys |-> <<>>, retry |-> 0,
     api |-> FALSE,      \* called through the napi entry point of lib.rs
     errs |-> <<>>,      \* the error of each suspended add/replace frame
     own |-> 0,          \* the handle this call constructed (0: none)
     db |-> 0,           \* the handle the call uses
     i |-> 0,            \* batch: keys read so far
     docs |-> <<>>, errors |-> <<>>,
     cnt |-> 0,          \* counter: the value about to be written
     res |-> NoRes,
     \* observers of the call in progress
     pre |-> Absent,     \* the document at key when the call started
     seen |-> Absent,    \* counter: the document its read returned
     cached |-> 0,       \* resolve: the handle cached when the call started,
                         \* if no first resolution of the bucket was under way
     warm |-> FALSE,     \* resolve: some handle was cached when the call started
     st0 |-> <<>>,       \* batch: the bucket's documents when the call started
     retry0 |-> 0,       \* the retry argument of the call
     attempts |-> 0,     \* store calls issued
     nfault |-> 0,       \* of which failed transiently
     outs |-> <<>>,      \* batch: what the store answered to each read
     failed |-> {},      \* batch: keys with a failed read
     order |-> <<>>]     \* batch: the key of each read issued, in order

\* ----------------------------------------------- get_bucket_connection
NoLock == [readers |-> {}, writer |-> 0, queue |-> <<>>]

\* tokio's RwLock is fair (write-preferring): a read is granted at once
\* unless a writer holds the lock or waits for it, a write only when the
\* lock is free and nobody waits; otherwise the request queues. A release
\* hands the lock to the waiters at the front of the queue, the readers
\* up to the first writer, who take it when they next run.
ReadFree == rw.writer = 0
WriteFree == rw.writer = 0 /\ rw.readers = {}
WriterQueuedBefore(n) == \E j \in 1..n : task[rw.queue[j]].pc = "wwait"
WriterQueued == WriterQueuedBefore(Len(rw.queue))
QueueWithout(t) == SelectSeq(rw.queue, LAMBDA x : x # t)

\* BUCKET_CONNECTIONS.read().await
RLock(t) ==
    /\ task[t].pc = "resolve"
    /\ IF ReadFree /\ ~WriterQueued
       THEN /\ rw' = [rw EXCEPT !.readers = @ \cup {t}]
            /\ task' = [task EXCEPT ![t].pc = "lookup"]
       ELSE /\ rw' = [rw EXCEPT !.queue = Append(@, t)]
            /\ task' = [task EXCEPT ![t].pc = "rwait"]
    /\ UNCHANGED <<storeVars, connVars, pool, nHandles, lastAdd, scen>>

\* A waiter takes the lock it was handed: a reader with no writer before
\* it in the queue once no writer holds the lock, a writer at the head of
\* the queue once the lock is free.
Grant(t) ==
    /\ \E j \in 1..Len(rw.queue) :
          /\ rw.queue[j] = t
          /\ \/ /\ task[t].pc = "rwait"
                /\ ReadFree
                /\ ~WriterQueuedBefore(j)
                /\ rw' = [rw EXCEPT !.readers = @ \cup {t}, !.queue = QueueWithout(t)]
                /\ task' = [task EXCEPT ![t].pc = "lookup"]
             \/ /\ task[t].pc = "wwait"
                /\ j = 1
                /\ WriteFree
                /\ rw' = [rw EXCEPT !.writer = t, !.queue = QueueWithout(t)]
                /\ task' = [task EXCEPT ![t].pc = "insert"]
    /\ UNCHANGED <<storeVars, connVars, pool, nHandles, lastAdd, scen>>

\* .get(&bucket_name): a hit returns the cached handle; the read guard is
\* dropped at the end of the if-let either way.
LookupAlwaysMiss(t) ==
    /\ task[t].pc = "lookup"
    /\ rw' = [rw EXCEPT !.readers = @ \ {t}]
    /\ task' = [task EXCEPT ![t].pc = "construct"]
    /\ UNCHANGED <<storeVars, connVars, pool, nHandles, lastAdd, scen>>

\* Variants: a hit that goes on to the write lock and inserts what it
\* found; a miss that keeps its read guard.
LookupHitTakesWrite(t) ==
    /\ task[t].pc = "lookup"
    /\ rw' = [rw EXCEPT !.readers = @ \ {t}]
    /\ IF pool[task[t].bucket] # 0
       THEN task' = [task EXCEPT ![t].pc = "wlock",
                                 ![t].own = pool[task[t].bucket]]
       ELSE task' = [task EXCEPT ![t].pc = "construct"]
    /\ UNCHANGED <<storeVars, connVars, pool, nHandles, lastAdd, scen>>

LookupKeepsReadLock(t) ==
    /\ task[t].pc = "lookup"
    /\ IF pool[task[t].bucket] # 0
       THEN /\ rw' = [rw EXCEPT !.readers = @ \ {t}]
            /\ task' = [task EXCEPT ![t].pc = "body",
                                      ![t].db = pool[task[t].bucket]]
       ELSE /\ rw' = rw
            /\ task' = [task EXCEPT ![t].pc = "construct"]
    /\ UNCHANGED <<storeVars, connVars, pool, nHandles, lastAdd, scen>>

Lookup(t) ==
    /\ task[t].pc = "lookup"
    /\ rw' = [rw EXCEPT !.readers = @ \ {t}]
    /\ IF pool[task[t].bucket] # 0
       THEN task' = [task EXCEPT ![t].pc = "body",
                                 ![t].db = pool[task[t].bucket]]
       ELSE task' = [task EXCEPT ![t].pc = "construct"]
    /\ UNCHANGED <<storeVars, connVars, pool, nHandles, lastAdd, scen>>

\* create_cluster_connection, run by the first dereference of
\* CB_CONNECTION: expect() panics when a variable is missing, and the
\* poisoned lazy static panics on every later dereference.
ClusterAfterDeref ==
    IF cluster = "ready" THEN "ready"
    ELSE IF cluster = "uninit" /\ envOk THEN "ready"
    ELSE "poisoned"

\* Cluster::connect runs inside the lazy static's initializer: on the
\* first dereference only, and after the three variables were read.
ConnectsAfterDerefEveryTime == IF envOk THEN connects + 1 ELSE connects

ConnectsAfterDeref ==
    IF cluster = "uninit" /\ envOk THEN connects + 1 ELSE connects

\* CB_CONNECTION.bucket(&bucket_name); Arc::new(bucket.default_collection())
Construct(t) ==
    /\ task[t].pc = "construct"
    /\ cluster' = ClusterAfterDeref
    /\ connects' = ConnectsAfterDeref
    /\ IF ClusterAfterDeref = "ready"
       THEN /\ nHandles' = nHandles + 1
            /\ task' = [task EXCEPT ![t].pc = "wlock", ![t].own = nHandles + 1]
       ELSE /\ nHandles' = nHandles
            /\ task' = [task EXCEPT ![t].pc = "panicked"]
    /\ UNCHANGED <<storeVars, envOk, directs, pool, rw, lastAdd, scen>>

\* BUCKET_CONNECTIONS.write().await
WLock(t) ==
    /\ task[t].pc = "wlock"
    /\ IF WriteFree /\ rw.queue = <<>>
       THEN /\ rw' = [rw EXCEPT !.writer = t]
            /\ task' = [task EXCEPT ![t].pc = "insert"]
       ELSE /\ rw' = [rw EXCEPT !.queue = Append(@, t)]
            /\ task' = [task EXCEPT ![t].pc = "wwait"]
    /\ UNCHANGED <<storeVars, connVars, pool, nHandles, lastAdd, scen>>

\* .insert(bucket_name, Arc::clone(&collection)); Ok(collection)
Insert(t) ==
    /\ task[t].pc = "insert"
    /\ pool' = [pool EXCEPT ![task[t].bucket] = task[t].own]
    /\ rw' = [rw EXCEPT !.writer = 0]
    /\ task' = [task EXCEPT ![t].pc = "body", ![t].db = task[t].own]
    /\ UNCHANGED <<storeVars, connVars, nHandles, lastAdd, scen>>

\* init_couchbase_connection: dereferences CB_CONNECTION and nothing else,
\* any number of times.
InitCouchbase ==
    /\ cluster' = ClusterAfterDeref
    /\ connects' = ConnectsAfterDeref
    /\ UNCHANGED <<storeVars, envOk, directs, poolVars, task, lastAdd, scen>>

\* create_cluster_connection called directly (it is a pub fn): it reads
\* the three variables and connects, every time, and neither reads nor
\* writes CB_CONNECTION. With a variable missing its expect() panics in the
\* caller and nothing is changed.
create_cluster_connection ==
    /\ envOk
    /\ directs < MaxConnects
    /\ connects' = connects + 1
    /\ directs' = directs + 1
    /\ UNCHANGED <<storeVars, envOk, cluster, poolVars, task, lastAdd, scen>>

\* The host sets or removes a COUCHBASE_* variable: std::env::var reads the
\* environment of the moment of each call.
SetEnv ==
    /\ envOk' = ~envOk
    /\ UNCHANGED <<storeVars, cluster, connects, directs, poolVars, task,
                   lastAdd, scen>>

\* The same without the queue, which a single task never enters.
ResolveAlone(t) ==
    \/ RLock(t)
    \/ Lookup(t)
    \/ Construct(t)
    \/ WLock(t)
    \/ Insert(t)

get_bucket_connection(t) ==
    \/ RLock(t)
    \/ Grant(t)
    \/ Lookup(t)
    \/ Construct(t)
    \/ WLock(t)
    \/ Insert(t)

\* ------------------------------------------------- observers' updates
NoScen == [stage |-> 0, key |-> "k1", v1 |-> NoVal, v2 |-> NoVal, token |-> <<>>]

NoAdd == [live |-> FALSE, bucket |-> "b1", key |-> "k1", val |-> NoVal, cas |-> 0,
          hist |-> {}]

\* A batch read of bucket b is in progress.
BatchRunning(b) ==
    \E t \in Tasks :
        /\ task[t].op \in {"batch", "batchV2"}
        /\ task[t].bucket = b
        /\ task[t].pc \notin {"idle", "done", "panicked"}

\* The contents bucket b has had after each write applied while a batch
\* read of it was in progress.
HistAfter(b, k, r) ==
    IF r.ok /\ BatchRunning(b)
    THEN lastAdd.hist \cup {[store[b] EXCEPT ![k] = r.doc]}
    ELSE lastAdd.hist

\* The last successful insert, forgotten as soon as any later write or
\* remove of its key succeeds.
LastAddAfter(b, k, r, isAdd) ==
    [(IF r.ok /\ isAdd
      THEN [live |-> TRUE, bucket |-> b, key |-> k, val |-> r.doc.val,
            cas |-> r.doc.cas, hist |-> {}]
      ELSE IF r.ok /\ lastAdd.live /\ lastAdd.bucket = b /\ lastAdd.key = k
      THEN NoAdd
      ELSE lastAdd) EXCEPT !.hist = HistAfter(b, k, r)]

\* ----------------------------------------------- the napi entry points
\* add_documents: Ok passes through, an error gets the "Couchbase error: "
\* prefix.
add_documents(res) ==
    IF res.ok THEN res
    ELSE Err([res.err EXCEPT !.prefix = "Couchbase error: "])

\* replace_documents: Ok(true) for any success message, the error as is.
ReplaceDocumentsRaw(res) == res

replace_documents(res) == IF res.ok THEN OkTrue ELSE res

\* What the caller of task t's call gets.  The entry points of the other
\* operations hand the result on as it is.
Public(t, r) ==
    IF ~task[t].api THEN r
    ELSE IF task[t].op = "add" THEN add_documents(r)
    ELSE IF task[t].op = "replace" THEN replace_documents(r)
    ELSE r

\* ------------------------------------------------------ the callers
DocValues == {Obj(1), Obj(2)}
CasArgs == {NoCas} \cup (1..(MaxCas + 1))

NewCall(op, b, k) ==
    [IdleTask EXCEPT !.pc = "resolve", !.op = op, !.bucket = b, !.key = k,
                     !.pre = store[b][k]]

Begin(t, call) ==
    /\ task[t].pc = "idle"
    /\ task' = [task EXCEPT ![t] = call]
    /\ UNCHANGED <<storeVars, connVars, poolVars, lastAdd, scen>>

\* get_document(key, with_cas, bucket_name)
CallGet(t, bs, ks) ==
    \E b \in bs, k \in ks, wc \in BOOLEAN :
        Begin(t, [NewCall("get", b, k) EXCEPT !.withCas = wc])

\* add_document(key, value, bucket_name, retry)
CallAdd(t, bs, ks, rs) ==
    \E b \in bs, k \in ks, v \in DocValues, n \in rs :
        Begin(t, [NewCall("add", b, k) EXCEPT !.val = v, !.retry = n,
                                              !.retry0 = n])

\* addDocument(key, value, bucketName)
PublicAdd(b, k, v) ==
    [NewCall("add", b, k) EXCEPT !.val = v, !.api = TRUE,
                                 !.retry = PublicRetries, !.retry0 = PublicRetries]

CallPublicAdd(t, bs, ks) ==
    \E b \in bs, k \in ks, v \in DocValues : Begin(t, PublicAdd(b, k, v))

\* replace_document(key, value, cas, bucket_name, retry)
CallReplace(t, bs, ks) ==
    \E b \in bs, k \in ks, v \in DocValues, c \in CasArgs, n \in RetryArgs :
        Begin(t, [NewCall("replace", b, k) EXCEPT !.val = v, !.cas = c,
                                                  !.retry = n, !.retry0 = n])

\* replaceDocument(key, value, cas, bucketName)
PublicReplace(b, k, v, c) ==
    [NewCall("replace", b, k) EXCEPT !.val = v, !.cas = c, !.api = TRUE,
                                     !.retry = PublicRetries, !.retry0 = PublicRetries]

CallPublicReplace(t, bs, ks) ==
    \E b \in bs, k \in ks, v \in DocValues, c \in CasArgs :
        Begin(t, PublicReplace(b, k, v, c))

\* delete_data(key, bucket_name)
CallRemove(t, bs, ks) ==
    \E b \in bs, k \in ks : Begin(t, NewCall("remove", b, k))

\* The caller takes the result; the task is free for its next call.
Return(t) ==
    /\ task[t].pc = "done"
    /\ task' = [task EXCEPT ![t] = IdleTask]
    /\ UNCHANGED <<storeVars, connVars, poolVars, lastAdd, scen>>

\* ------------------------------------------------------ get_document
\* What get_document makes of a read: the content, wrapped with the
\* revision as a string when with_cas.
GetValueInverted(doc, withCas) ==
    IF ~withCas
    THEN [t |-> "withcas", value |-> doc.val, cas |-> Str(ToString(doc.cas))]
    ELSE doc.val

GetValue(doc, withCas) ==
    IF withCas
    THEN [t |-> "withcas", value |-> doc.val, cas |-> Str(ToString(doc.cas))]
    ELSE doc.val

\* The match on the read: Ok(data) or Err(error.to_string()).
GetResultNullOnError(r, withCas) ==
    IF r.ok THEN Ok(GetValue(r.doc, withCas)) ELSE Ok(NoVal)

GetResult(r, withCas) ==
    IF r.ok THEN Ok(GetValue(r.doc, withCas)) ELSE Err(r.err)

get_document(t) ==
    /\ task[t].pc = "body"
    /\ task[t].op = "get"
    /\ \E fault \in FaultChoices :
        LET r == StoreGet(task[t].bucket, task[t].key, fault)
        IN  /\ faults' = IF fault THEN faults + 1 ELSE faults
            /\ task' = [task EXCEPT
                 ![t].pc = "done",
                 ![t].attempts = @ + 1,
                 ![t].nfault = IF fault THEN @ + 1 ELSE @,
                 ![t].res = GetResult(r, task[t].withCas)]
    /\ UNCHANGED <<store, casCtr, connVars, poolVars, lastAdd, scen>>

\* ------------------------------------------- add_document and its retry
\* What the suspended frames make of the innermost frame's result, from
\* the inside out: a frame whose retry succeeded returns success, any other
\* returns its own attempt's error.
UnwindIgnoresResult(errs, r, okRes) == IF errs = <<>> THEN r ELSE okRes

UnwindInnermost(errs, r, okRes) == r

RECURSIVE Unwind(_, _, _)
Unwind(errs, r, okRes) ==
    IF errs = <<>> THEN r
    ELSE Unwind(SubSeq(errs, 1, Len(errs) - 1),
                IF r.ok THEN okRes ELSE Err(errs[Len(errs)]),
                okRes)

\* One frame of add_document/replace_document after its store call r.
AfterAttemptStopsWhenExists(t, r, fault, okRes, ctx) ==
    IF r.ok
    THEN [task[t] EXCEPT !.pc = "done", !.attempts = @ + 1,
                         !.res = Public(t, Unwind(task[t].errs, okRes, okRes))]
    ELSE IF task[t].retry <= 0 \/ r.err.kind = "DocumentExists"
    THEN [task[t] EXCEPT !.pc = "done", !.attempts = @ + 1,
                         !.nfault = IF fault THEN @ + 1 ELSE @,
                         !.res = Public(t, Unwind(task[t].errs,
                                            Err(RetryLimit(r.err, ctx)), okRes))]
    ELSE [task[t] EXCEPT !.pc = "delay", !.attempts = @ + 1,
                         !.nfault = IF fault THEN @ + 1 ELSE @,
                         !.errs = Append(@, r.err)]

AfterAttempt(t, r, fault, okRes, ctx) ==
    IF r.ok
    THEN [task[t] EXCEPT !.pc = "done", !.attempts = @ + 1,
                         !.res = Public(t, Unwind(task[t].errs, okRes, okRes))]
    ELSE IF task[t].retry <= 0
    THEN [task[t] EXCEPT !.pc = "done", !.attempts = @ + 1,
                         !.nfault = IF fault THEN @ + 1 ELSE @,
                         !.res = Public(t, Unwind(task[t].errs,
                                            Err(RetryLimit(r.err, ctx)), okRes))]
    ELSE [task[t] EXCEPT !.pc = "delay", !.attempts = @ + 1,
                         !.nfault = IF fault THEN @ + 1 ELSE @,
                         !.errs = Append(@, r.err)]

add_document(t) ==
    /\ task[t].pc = "body"
    /\ task[t].op = "add"
    /\ \E fault \in FaultChoices :
        LET b == task[t].bucket
            k == task[t].key
            r == StoreInsert(b, k, task[t].val, fault)
        IN  /\ r.ok => CanWrite
            /\ ApplyStore(b, k, r, fault, TRUE)
            /\ lastAdd' = LastAddAfter(b, k, r, TRUE)
            /\ task' = [task EXCEPT ![t] = AfterAttempt(t, r, fault, OkTrue, "adding")]
    /\ UNCHANGED <<connVars, poolVars, scen>>

\* time::sleep(1 s), then the recursive call with retry - 1, which starts
\* with get_bucket_connection again.
RetryDelayKeepsCount(t) ==
    /\ task[t].pc = "delay"
    /\ task' = [task EXCEPT ![t].pc = "resolve"]
    /\ UNCHANGED <<storeVars, connVars, poolVars, lastAdd, scen>>

RetryDelay(t) ==
    /\ task[t].pc = "delay"
    /\ task' = [task EXCEPT ![t].pc = "resolve", ![t].retry = @ - 1]
    /\ UNCHANGED <<storeVars, connVars, poolVars, lastAdd, scen>>

\* -------------------------------------------------- replace_document
\* ReplaceOptions: .cas(cas) when a token was given, the default otherwise.
ReplaceOptDropped(cas) == NoCas

ReplaceOpt(cas) == IF cas # NoCas THEN cas ELSE NoCas

replace_document(t) ==
    /\ task[t].pc = "body"
    /\ task[t].op = "replace"
    /\ \E fault \in FaultChoices :
        LET b == task[t].bucket
            k == task[t].key
            r == StoreReplace(b, k, task[t].val, ReplaceOpt(task[t].cas), fault)
        IN  /\ r.ok => CanWrite
            /\ ApplyStore(b, k, r, fault, TRUE)
            /\ lastAdd' = LastAddAfter(b, k, r, FALSE)
            /\ task' = [task EXCEPT ![t] =
                   AfterAttempt(t, r, fault, OkMsg("updated", k, b), "updating")]
    /\ UNCHANGED <<connVars, poolVars, scen>>

\* -------------------------------------------------------- delete_data
delete_dataRetrying(t) ==
    /\ task[t].pc = "body"
    /\ task[t].op = "remove"
    /\ \E fault \in FaultChoices :
        LET b == task[t].bucket
            k == task[t].key
            r == StoreRemove(b, k, fault)
        IN  /\ ApplyStore(b, k, r, fault, FALSE)
            /\ lastAdd' = LastAddAfter(b, k, r, FALSE)
            /\ task' = [task EXCEPT
                 ![t].pc = IF r.ok \/ task[t].attempts >= 1 THEN "done" ELSE "body",
                 ![t].attempts = @ + 1,
                 ![t].nfault = IF fault THEN @ + 1 ELSE @,
                 ![t].res = IF r.ok THEN OkMsg("deleted", k, b) ELSE Err(r.err)]
    /\ UNCHANGED <<connVars, poolVars, scen>>

delete_data(t) ==
    /\ task[t].pc = "body"
    /\ task[t].op = "remove"
    /\ \E fault \in FaultChoices :
        LET b == task[t].bucket
            k == task[t].key
            r == StoreRemove(b, k, fault)
        IN  /\ ApplyStore(b, k, r, fault, FALSE)
            /\ lastAdd' = LastAddAfter(b, k, r, FALSE)
            /\ task' = [task EXCEPT
                 ![t].pc = "done",
                 ![t].attempts = @ + 1,
                 ![t].nfault = IF fault THEN @ + 1 ELSE @,
                 ![t].res = IF r.ok THEN OkMsg("deleted", k, b) ELSE Err(r.err)]
    /\ UNCHANGED <<connVars, poolVars, scen>>

\* -------------------------------------------------- the specifications
EmptyStore == [b \in Buckets |-> [k \in Keys |-> Absent]]

InitWith(st, c) ==
    /\ store = st
    /\ casCtr = c
    /\ faults = 0
    /\ envOk \in BOOLEAN
    /\ cluster = "uninit"
    /\ connects = 0
    /\ directs = 0
    /\ pool = [b \in Buckets |-> 0]
    /\ rw = NoLock
    /\ nHandles = 0
    /\ task = [t \in Tasks |-> IdleTask]
    /\ lastAdd = NoAdd
    /\ scen = NoScen

\* One caller issuing single-document calls, one after the other, against
\* one bucket that starts empty.
Init == InitWith(EmptyStore, 0)

Next ==
    \/ InitCouchbase
    \/ CallGet(1, {"b1"}, Keys)
    \/ CallAdd(1, {"b1"}, Keys, RetryArgs)
    \/ CallPublicAdd(1, {"b1"}, Keys)
    \/ CallReplace(1, {"b1"}, Keys)
    \/ CallPublicReplace(1, {"b1"}, Keys)
    \/ CallRemove(1, {"b1"}, Keys)
    \/ ResolveAlone(1)
    \/ get_document(1)
    \/ add_document(1)
    \/ replace_document(1)
    \/ delete_data(1)
    \/ RetryDelay(1)
    \/ Return(1)

Spec == Init /\ [][Next]_vars

\* ------------------------------------------------ the scripted caller
\* add(k, v1); get(k, true); replace(k, v2, token); get(k, false);
\* remove(k); get(k, .): each call through the public interface, issued
\* once the call before it has returned success.  The token is the "cas"
\* string of the second call's result, turned back into an integer.
Script(t) ==
    /\ task[t].pc = "idle"
    /\ \/ /\ scen.stage = 0
          /\ \E k \in Keys, v1 \in DocValues, v2 \in DocValues :
              /\ scen' = [scen EXCEPT !.stage = 1, !.key = k, !.v1 = v1, !.v2 = v2]
              /\ task' = [task EXCEPT ![t] = PublicAdd("b1", k, v1)]
       \/ /\ scen.stage = 1
          /\ scen' = [scen EXCEPT !.stage = 2]
          /\ task' = [task EXCEPT ![t] =
                 [NewCall("get", "b1", scen.key) EXCEPT !.withCas = TRUE]]
       \/ /\ scen.stage = 2
          /\ scen' = [scen EXCEPT !.stage = 3]
          /\ task' = [task EXCEPT ![t] =
                 PublicReplace("b1", scen.key, scen.v2, ParseI64(scen.token).n)]
       \/ /\ scen.stage = 3
          /\ scen' = [scen EXCEPT !.stage = 4]
          /\ task' = [task EXCEPT ![t] = NewCall("get", "b1", scen.key)]
       \/ /\ scen.stage = 4
          /\ scen' = [scen EXCEPT !.stage = 5]
          /\ task' = [task EXCEPT ![t] = NewCall("remove", "b1", scen.key)]
       \/ /\ scen.stage = 5
          /\ \E wc \in BOOLEAN :
              /\ scen' = [scen EXCEPT !.stage = 6]
              /\ task' = [task EXCEPT ![t] =
                     [NewCall("get", "b1", scen.key) EXCEPT !.withCas = wc]]
    /\ UNCHANGED <<storeVars, connVars, poolVars, lastAdd>>

\* The scripted caller takes a successful result (keeping the token of the
\* second call) and stops at the first failure.
ScriptReturn(t) ==
    /\ task[t].pc = "done"
    /\ task[t].res.ok
    /\ scen' = IF scen.stage = 2
               THEN [scen EXCEPT !.token = task[t].res.val.cas.s]
               ELSE scen
    /\ task' = [task EXCEPT ![t] = IdleTask]
    /\ UNCHANGED <<storeVars, connVars, poolVars, lastAdd>>

NextScenario ==
    \/ Script(1)
    \/ ScriptReturn(1)
    \/ ResolveAlone(1)
    \/ get_document(1)
    \/ add_document(1)
    \/ replace_document(1)
    \/ delete_data(1)
    \/ RetryDelay(1)

SpecScenario == Init /\ [][NextScenario]_vars


\* ------------------------------------ get_documents, get_documents_v2
\* Key lists of up to MaxKeys keys, repeated keys included.
RECURSIVE SeqsUpTo(_)
SeqsUpTo(n) ==
    IF n = 0 THEN {<<>>}
    ELSE LET shorter == SeqsUpTo(n - 1)
         IN  shorter \cup {Append(q, k) : q \in {x \in shorter : Len(x) = n - 1},
                                          k \in Keys}
KeyLists == SeqsUpTo(MaxKeys)
KeySet(keys) == {keys[j] : j \in 1..Len(keys)}

\* get_documents(keys, with_cas, bucket_name) and get_documents_v2(..)
CallBatch(t, bs) ==
    \E b \in bs, ks \in KeyLists, wc \in BOOLEAN, op \in {"batch", "batchV2"} :
        Begin(t, [NewCall(op, b, "k1") EXCEPT !.keys = ks, !.withCas = wc,
                                             !.cached = pool[b],
                                             !.st0 = store[b]])

\* HashMap::insert
MapPut(m, k, v) == [x \in DOMAIN m \cup {k} |-> IF x = k THEN v ELSE m[x]]

\* What get_documents keeps of a document: the content, wrapped with the
\* revision as a number when with_cas.
BatchValue(doc, withCas) ==
    IF withCas
    THEN [t |-> "withcas", value |-> doc.val, cas |-> Num(doc.cas)]
    ELSE doc.val

\* docs.insert(key.to_string(), ..)
DocsInsertDropped(docs, k, doc, withCas) == docs

DocsInsertFirstKey(docs, k, doc, withCas) ==
    MapPut(docs, "k1", BatchValue(doc, withCas))

DocsInsert(docs, k, doc, withCas) == MapPut(docs, k, BatchValue(doc, withCas))

\* errors.insert(key.to_string(), json!({"error": err.to_string()}))
ErrorsInsertOnlyLast(errors, k, e) == [x \in {k} |-> [error |-> e.kind]]

ErrorsInsert(errors, k, e) == MapPut(errors, k, [error |-> e.kind])

\* The end of get_documents: the documents, or one error that embeds the
\* key list and the error map.
BatchError(keys, errors) ==
    [kind |-> "BatchError", marker |-> FALSE, ctx |-> "fetching documents",
     prefix |-> "", keys |-> keys, errors |-> errors]

StrictResult(keys, docs, errors) ==
    IF errors = <<>> THEN Ok([t |-> "map", m |-> docs])
    ELSE Err(BatchError(keys, errors))

\* The end of get_documents_v2: both maps, always (the key list is not
\* part of it).
PartialResultStrict(keys, docs, errors) ==
    IF errors = <<>> THEN Ok([t |-> "partial", docs |-> docs, errors |-> errors])
    ELSE Err(BatchError(keys, errors))

PartialResult(keys, docs, errors) ==
    Ok([t |-> "partial", docs |-> docs, errors |-> errors])

EmptyKeysError ==
    [kind |-> "EmptyKeys", marker |-> FALSE,
     ctx |-> "Array of Keys need to be on length>0", prefix |-> ""]

\* get_documents: one pass of its loop over keys, the read of the next
\* key, and after the last key the function's result.
BatchLoopStopsAtFailure(t, fault) ==
    LET c == task[t]
        k == c.keys[c.i + 1]
        r == StoreGet(c.bucket, k, fault)
        docs2 == IF r.ok THEN DocsInsert(c.docs, k, r.doc, c.withCas) ELSE c.docs
        errors2 == IF r.ok THEN c.errors ELSE ErrorsInsert(c.errors, k, r.err)
        last == c.i + 1 = Len(c.keys) \/ ~r.ok
    IN  [c EXCEPT !.i = @ + 1,
                  !.docs = docs2,
                  !.errors = errors2,
                  !.attempts = @ + 1,
                  !.order = Append(@, k),
                  !.outs = Append(@, r),
                  !.nfault = IF fault THEN @ + 1 ELSE @,
                  !.failed = IF r.ok THEN @ ELSE @ \cup {k},
                  !.pc = IF last THEN "done" ELSE "body",
                  !.res = IF last THEN StrictResult(c.keys, docs2, errors2)
                          ELSE NoRes]

BatchLoop(t, fault) ==
    LET c == task[t]
        k == c.keys[c.i + 1]
        r == StoreGet(c.bucket, k, fault)
        docs2 == IF r.ok THEN DocsInsert(c.docs, k, r.doc, c.withCas) ELSE c.docs
        errors2 == IF r.ok THEN c.errors ELSE ErrorsInsert(c.errors, k, r.err)
        last == c.i + 1 = Len(c.keys)
    IN  [c EXCEPT !.i = @ + 1,
                  !.docs = docs2,
                  !.errors = errors2,
                  !.attempts = @ + 1,
                  !.order = Append(@, k),
                  !.outs = Append(@, r),
                  !.nfault = IF fault THEN @ + 1 ELSE @,
                  !.failed = IF r.ok THEN @ ELSE @ \cup {k},
                  !.pc = IF last THEN "done" ELSE "body",
                  !.res = IF last THEN StrictResult(c.keys, docs2, errors2)
                          ELSE NoRes]

\* get_documents after get_bucket_connection: the check of the key list,
\* then the loop.
BatchStepUnchecked(t) ==
    IF task[t].keys = <<>>
    THEN /\ task' = [task EXCEPT ![t].pc = "done",
                                 ![t].res = StrictResult(<<>>, <<>>, <<>>)]
         /\ faults' = faults
    ELSE \E fault \in FaultChoices :
            /\ task' = [task EXCEPT ![t] = BatchLoop(t, fault)]
            /\ faults' = IF fault THEN faults + 1 ELSE faults

BatchStep(t) ==
    IF task[t].keys = <<>>
    THEN /\ task' = [task EXCEPT ![t].pc = "done", ![t].res = Err(EmptyKeysError)]
         /\ faults' = faults
    ELSE \E fault \in FaultChoices :
            /\ task' = [task EXCEPT ![t] = BatchLoop(t, fault)]
            /\ faults' = IF fault THEN faults + 1 ELSE faults

\* get_documents_v2 is written out a second time in the source; its
\* statements are translated here on their own.
\* json!({"value": data, "cas": res.cas()}) when with_cas, json!(data)
\* otherwise.
BatchValueV2CasString(doc, withCas) ==
    IF withCas
    THEN [t |-> "withcas", value |-> doc.val, cas |-> Str(ToString(doc.cas))]
    ELSE doc.val

BatchValueV2(doc, withCas) ==
    IF withCas
    THEN [t |-> "withcas", value |-> doc.val, cas |-> Num(doc.cas)]
    ELSE doc.val

\* docs.insert(key.to_string(), ..)
DocsInsertV2(docs, k, doc, withCas) == MapPut(docs, k, BatchValueV2(doc, withCas))

\* errors.insert(key.to_string(), json!({"error": err.to_string()}))
ErrorsInsertV2(errors, k, e) == MapPut(errors, k, [error |-> e.kind])

\* Err("Array of Keys need to be on length>0".to_string())
EmptyKeysErrorV2 ==
    [kind |-> "EmptyKeys", marker |-> FALSE,
     ctx |-> "Array of Keys need to be on length>0", prefix |-> ""]

\* One pass of its loop over keys, and after the last key its result.
BatchLoopV2(t, fault) ==
    LET c == task[t]
        k == c.keys[c.i + 1]
        r == StoreGet(c.bucket, k, fault)
        docs2 == IF r.ok THEN DocsInsertV2(c.docs, k, r.doc, c.withCas) ELSE c.docs
        errors2 == IF r.ok THEN c.errors ELSE ErrorsInsertV2(c.errors, k, r.err)
        last == c.i + 1 = Len(c.keys)
    IN  [c EXCEPT !.i = @ + 1,
                  !.docs = docs2,
                  !.errors = errors2,
                  !.attempts = @ + 1,
                  !.order = Append(@, k),
                  !.outs = Append(@, r),
                  !.nfault = IF fault THEN @ + 1 ELSE @,
                  !.failed = IF r.ok THEN @ ELSE @ \cup {k},
                  !.pc = IF last THEN "done" ELSE "body",
                  !.res = IF last THEN PartialResult(c.keys, docs2, errors2)
                          ELSE NoRes]

\* get_documents_v2 after get_bucket_connection: the check of the key
\* list, then the loop.
BatchStepV2(t) ==
    IF task[t].keys = <<>>
    THEN /\ task' = [task EXCEPT ![t].pc = "done", ![t].res = Err(EmptyKeysErrorV2)]
         /\ faults' = faults
    ELSE \E fault \in FaultChoices :
            /\ task' = [task EXCEPT ![t] = BatchLoopV2(t, fault)]
            /\ faults' = IF fault THEN faults + 1 ELSE faults

get_documents(t) ==
    /\ task[t].pc = "body"
    /\ task[t].op = "batch"
    /\ BatchStep(t)
    /\ UNCHANGED <<store, casCtr, connVars, poolVars, lastAdd, scen>>

get_documents_v2(t) ==
    /\ task[t].pc = "body"
    /\ task[t].op = "batchV2"
    /\ BatchStepV2(t)
    /\ UNCHANGED <<store, casCtr, connVars, poolVars, lastAdd, scen>>

\* A bucket whose keys are each absent or hold a document.
SeedCas(k) == IF k = "k1" THEN 11 ELSE 12
SeedValue(k) == IF k = "k1" THEN Obj(1) ELSE Obj(2)
SeededStores ==
    {[b \in Buckets |-> IF b = "b1"
                        THEN [k \in Keys |-> IF k \in present
                                             THEN Doc(SeedValue(k), SeedCas(k))
                                             ELSE Absent]
                        ELSE [k \in Keys |-> Absent]] : present \in SUBSET Keys}

\* One caller issuing batch reads of a seeded bucket, one after the other.
InitBatch == \E st \in SeededStores : InitWith(st, 0)

NextBatch ==
    \/ CallBatch(1, {"b1"})
    \/ ResolveAlone(1)
    \/ get_documents(1)
    \/ get_documents_v2(1)
    \/ Return(1)

SpecBatch == InitBatch /\ [][NextBatch]_vars


\* ----------------------------------------------- get_next_counter_key
\* get_next_counter_key(bucket_name, key, initial_counter)
InitArgs == {NoInit} \cup (0..MaxCounter)

CallCounter(t, bs, ks) ==
    \E b \in bs, k \in ks, n \in InitArgs :
        Begin(t, [NewCall("counter", b, k) EXCEPT !.init = n])

\* The value the function decides to write after its read r: the explicit
\* initial value when there is one; else the stored number, or the stored
\* string parsed as an integer (0 when it does not parse), plus one; and
\* when the read failed, the initial value or 1.  No value for a document
\* that is neither a number nor a string.
\* let new_counter = counter + 1;
IncrementByTwo(n) == n + 2

Increment(n) == n + 1

CounterValueIgnoresInit(r, init) ==
    IF r.ok
    THEN LET i64 == ContentI64(r.doc.val)
             str == ContentString(r.doc.val)
             parsed == ParseI64(str.s)
         IN  IF i64.ok THEN [ok |-> TRUE, n |-> i64.n + 1]
             ELSE IF str.ok
             THEN [ok |-> TRUE, n |-> (IF parsed.ok THEN parsed.n ELSE 0) + 1]
             ELSE [ok |-> FALSE, n |-> 0]
    ELSE [ok |-> TRUE, n |-> IF init # NoInit THEN init ELSE 1]

CounterValue(r, init) ==
    IF r.ok
    THEN IF init # NoInit THEN [ok |-> TRUE, n |-> init]
         ELSE LET i64 == ContentI64(r.doc.val)
                  str == ContentString(r.doc.val)
                  parsed == ParseI64(str.s)
              IN  IF i64.ok THEN [ok |-> TRUE, n |-> Increment(i64.n)]
                  ELSE IF str.ok
                  THEN [ok |-> TRUE,
                        n |-> Increment(IF parsed.ok THEN parsed.n ELSE 0)]
                  ELSE [ok |-> FALSE, n |-> 0]
    ELSE [ok |-> TRUE, n |-> IF init # NoInit THEN init ELSE 1]

InvalidCounterFormat ==
    [kind |-> "InvalidCounterFormat", marker |-> FALSE,
     ctx |-> "Invalid counter format", prefix |-> ""]

\* db.get(&key, ..) and the match on its result, up to the upsert.
CounterRead(t) ==
    /\ task[t].pc = "body"
    /\ task[t].op = "counter"
    /\ \E fault \in FaultChoices :
        LET r == StoreGet(task[t].bucket, task[t].key, fault)
            c == CounterValue(r, task[t].init)
        IN  /\ faults' = IF fault THEN faults + 1 ELSE faults
            /\ task' = [task EXCEPT
                 ![t].attempts = @ + 1,
                 ![t].nfault = IF fault THEN @ + 1 ELSE @,
                 ![t].failed = IF r.ok THEN @ ELSE {task[t].key},
                 ![t].seen = r.doc,
                 ![t].cnt = c.n,
                 ![t].pc = IF c.ok THEN "cwrite" ELSE "done",
                 ![t].res = IF c.ok THEN NoRes ELSE Err(InvalidCounterFormat)]
    /\ UNCHANGED <<store, casCtr, connVars, poolVars, lastAdd, scen>>

\* db.upsert(&key, &Value::Number(..), ..) and the value as a string.
CounterWrite(t) ==
    /\ task[t].pc = "cwrite"
    /\ \E fault \in FaultChoices :
        LET b == task[t].bucket
            k == task[t].key
            r == StoreUpsert(b, k, Num(task[t].cnt), fault)
        IN  /\ r.ok => casCtr < MaxUpserts
            /\ ApplyStore(b, k, r, fault, TRUE)
            /\ lastAdd' = LastAddAfter(b, k, r, FALSE)
            /\ task' = [task EXCEPT
                 ![t].pc = "done",
                 ![t].attempts = @ + 1,
                 ![t].nfault = IF fault THEN @ + 1 ELSE @,
                 ![t].res = IF r.ok THEN Ok(Str(ToString(task[t].cnt)))
                            ELSE Err(r.err)]
    /\ UNCHANGED <<connVars, poolVars, scen>>

\* Counter documents a bucket may hold: numbers, strings that parse and
\* strings that do not, and an object.
CounterSeeds ==
    {Num(n) : n \in (0..MaxCounter) \cup {-1}}
        \cup {Str(<<"7">>), Str(<<"1", "0">>), Str(<<"-", "3">>), Str(<<"+", "4">>),
              Str(<<"a">>), Str(<<>>), Str(<<"1", "x">>), Obj(1)}

CounterStores ==
    {[EmptyStore EXCEPT !["b1"]["k1"] = d] :
        d \in {Absent} \cup {Doc(v, SeedCas("k1")) : v \in CounterSeeds}}

\* One caller issuing counter calls, one after the other, on a key that is
\* absent or holds a seed and on a key that is absent.
InitCounter == \E st \in CounterStores : InitWith(st, 0)

NextCounter ==
    \/ CallCounter(1, {"b1"}, Keys)
    \/ ResolveAlone(1)
    \/ CounterRead(1)
    \/ CounterWrite(1)
    \/ Return(1)

SpecCounter == InitCounter /\ [][NextCounter]_vars


\* Counter calls without an initial value, by every task, one call each,
\* on one key that holds a number.
InitRace ==
    \E n \in 0..MaxCounter :
        InitWith([EmptyStore EXCEPT !["b1"]["k1"] = Doc(Num(n), SeedCas("k1"))], 0)

NextRace ==
    \E t \in Tasks :
        \/ Begin(t, NewCall("counter", "b1", "k1"))
        \/ get_bucket_connection(t)
        \/ CounterRead(t)
        \/ CounterWrite(t)

SpecRace == InitRace /\ [][NextRace]_vars

\* The state after one resolution of b1: connected, its handle cached.
InitWarm(st) ==
    /\ store = st
    /\ casCtr = 0
    /\ faults = 0
    /\ envOk = TRUE
    /\ cluster = "ready"
    /\ connects = 1
    /\ directs = 0
    /\ pool = [b \in Buckets |-> IF b = "b1" THEN 1 ELSE 0]
    /\ rw = NoLock
    /\ nHandles = 1
    /\ task = [t \in Tasks |-> IdleTask]
    /\ lastAdd = NoAdd
    /\ scen = NoScen

\* get_bucket_connection while the bucket is cached and nobody writes the
\* cache: the read lock is granted at once and the lookup hits.
ResolveCached(t) ==
    \/ RLock(t)
    \/ Lookup(t)

\* Every task adding its own value at the same key of an empty bucket,
\* once, concurrently, each with a retry argument of its choice.
CallAddOwn(t) ==
    \E n \in RetryArgs :
        Begin(t, [NewCall("add", "b1", "k1") EXCEPT !.val = Obj(t), !.retry = n,
                                                    !.retry0 = n])

NextAdds ==
    \E t \in Tasks :
        \/ CallAddOwn(t)
        \/ ResolveCached(t)
        \/ add_document(t)
        \/ RetryDelay(t)

SpecAdds == InitWarm(EmptyStore) /\ [][NextAdds]_vars

\* One task reading a batch of a seeded bucket, once, while another
\* replaces documents of it, call after call.
CallWrite(t) ==
    \E k \in Keys : Begin(t, [NewCall("replace", "b1", k) EXCEPT !.val = Obj(t + 1)])

NextSnapshot ==
    \/ CallBatch(1, {"b1"})
    \/ ResolveCached(1)
    \/ get_documents(1)
    \/ get_documents_v2(1)
    \/ CallWrite(2)
    \/ ResolveCached(2)
    \/ replace_document(2)
    \/ Return(2)

\* Bucket b1 holding a document at every key.
FullStore ==
    [b \in Buckets |-> IF b = "b1"
                        THEN [k \in Keys |-> Doc(SeedValue(k), SeedCas(k))]
                        ELSE [k \in Keys |-> Absent]]

SpecSnapshot == InitWarm(FullStore) /\ [][NextSnapshot]_vars

\* Task 1 running get_documents and task 2 get_documents_v2 side by side
\* on a seeded bucket, call after call: each call chooses its own
\* arguments and each read is answered on its own.
CallVariant(t, op) ==
    \E ks \in KeyLists, wc \in BOOLEAN :
        Begin(t, [NewCall(op, "b1", "k1") EXCEPT !.keys = ks, !.withCas = wc,
                                                !.cached = pool["b1"],
                                                !.st0 = store["b1"]])

NextPair ==
    \/ CallVariant(1, "batch")
    \/ ResolveCached(1)
    \/ get_documents(1)
    \/ Return(1)
    \/ CallVariant(2, "batchV2")
    \/ ResolveCached(2)
    \/ get_documents_v2(2)
    \/ Return(2)

SpecPair == (\E st \in SeededStores : InitWarm(st)) /\ [][NextPair]_vars

\* ------------------------------------- the bucket cache under concurrency
\* A first resolution of bucket b is under way: a task missed the cache
\* and has not inserted its handle yet.
Racing(b) ==
    \E u \in Tasks :
        /\ task[u].bucket = b
        /\ task[u].pc \in {"construct", "wlock", "wwait", "insert"}

\* get_bucket_connection(bucket_name), called on its own.
CallResolve(t, bs) ==
    \E b \in bs :
        Begin(t, [NewCall("resolve", b, "k1") EXCEPT
                     !.cached = IF Racing(b) THEN 0 ELSE pool[b],
                     !.warm = pool[b] # 0])

\* return Ok(Arc::clone(collection)) / Ok(collection)
ResolveReturn(t) ==
    /\ task[t].pc = "body"
    /\ task[t].op = "resolve"
    /\ task' = [task EXCEPT ![t].pc = "done",
                              ![t].res = Ok([t |-> "handle", n |-> task[t].db,
                                             s |-> <<>>])]
    /\ UNCHANGED <<storeVars, connVars, poolVars, lastAdd, scen>>

\* The bucket names a task asks for: every task b1, the first also b2.
PoolBuckets(t) == IF t = 1 THEN Buckets ELSE {"b1"}

\* Every task resolving buckets, again and again, and init_couchbase
\* called at any time.
NextPool ==
    \/ InitCouchbase
    \/ \E t \in Tasks :
          \/ CallResolve(t, PoolBuckets(t))
          \/ get_bucket_connection(t)
          \/ ResolveReturn(t)
          \/ Return(t)

SpecPool == Init /\ [][NextPool]_vars

\* Every task resolving one bucket of its choice, once, under the
\* runtime's scheduling: a task that can take its next step inside
\* get_bucket_connection takes it, and a waiter at the head of the lock's
\* queue is woken once the lock is free for it.
NextPoolOnce ==
    \/ InitCouchbase
    \/ \E t \in Tasks :
          \/ CallResolve(t, Buckets)
          \/ get_bucket_connection(t)
          \/ ResolveReturn(t)

\* The same with create_cluster_connection also called directly and the
\* environment changing, at any time.
NextConnect ==
    \/ create_cluster_connection
    \/ SetEnv
    \/ NextPoolOnce

SpecConnect == Init /\ [][NextConnect]_vars

PoolFairness ==
    \A t \in Tasks : WF_vars(get_bucket_connection(t) \/ ResolveReturn(t))

SpecPoolFair == Init /\ [][NextPoolOnce]_vars /\ PoolFairness

\* ------------------------------------------------------------ claims
Running(t) == task[t].pc \notin {"idle", "panicked"}
Done(t, op) == task[t].pc = "done" /\ task[t].op = op
AfterLastAdd(t) ==
    /\ lastAdd.live
    /\ lastAdd.bucket = task[t].bucket
    /\ lastAdd.key = task[t].key

\* C1: once an add of (k, v) to a bucket where k was absent has returned
\* success, and until a write or remove of k succeeds, get_document(k,
\* false) returns exactly v (and fails only when its read failed
\* transiently); a successful add has stored its own value.
C1_AddThenGet ==
    \A t \in Tasks :
        /\ (Done(t, "add") /\ task[t].res.ok /\ ~task[t].pre.ex) =>
               /\ AfterLastAdd(t)
               /\ lastAdd.val = task[t].val
               /\ store[task[t].bucket][task[t].key] = Doc(task[t].val, lastAdd.cas)
        /\ (Done(t, "get") /\ ~task[t].withCas /\ AfterLastAdd(t)) =>
               /\ task[t].res.ok => task[t].res = Ok(lastAdd.val)
               /\ task[t].nfault = 0 => task[t].res.ok

C1_Witness ==
    \E t \in Tasks :
        /\ Done(t, "get") /\ ~task[t].withCas /\ AfterLastAdd(t)
        /\ task[t].res = Ok(lastAdd.val)
        /\ lastAdd.val \in DocValues

\* C2: replace_document with a token that differs from the current
\* revision of an existing k leaves the stored value and revision as they
\* were, during the call and after it, and returns an error after
\* retry + 1 attempts: CasMismatch, unless an attempt failed transiently.
StaleCas(t) ==
    /\ task[t].op = "replace"
    /\ task[t].cas # NoCas
    /\ task[t].pre.ex
    /\ task[t].cas # task[t].pre.cas

C2_CasMismatchKeepsDocument ==
    \A t \in Tasks :
        (Running(t) /\ StaleCas(t)) =>
            /\ store[task[t].bucket][task[t].key] = task[t].pre
            /\ task[t].pc = "done" =>
                   /\ ~task[t].res.ok
                   /\ task[t].attempts = task[t].retry0 + 1
                   /\ task[t].res.err.kind \in {"CasMismatch", "Timeout"}
                   /\ task[t].nfault = 0 => task[t].res.err.kind = "CasMismatch"

C2_Witness ==
    \E t \in Tasks :
        /\ StaleCas(t)
        /\ task[t].pc = "done"
        /\ task[t].retry0 = PublicRetries
        /\ task[t].attempts = PublicRetries + 1
        /\ task[t].res.err.kind = "CasMismatch"
        /\ store[task[t].bucket][task[t].key] = task[t].pre

\* C3: what each call of the scripted caller returns when none of its
\* store calls failed transiently.
ScenarioExpected(t) ==
    LET r == task[t].res
        k == scen.key
    IN  CASE scen.stage = 1 -> r = OkTrue
          [] scen.stage = 2 ->
                /\ r.ok
                /\ r.val = [t |-> "withcas", value |-> scen.v1,
                            cas |-> Str(ToString(store["b1"][k].cas))]
          [] scen.stage = 3 -> r = OkTrue
          [] scen.stage = 4 -> r = Ok(scen.v2)
          [] scen.stage = 5 -> r = OkMsg("deleted", k, "b1")
          [] scen.stage = 6 -> ~r.ok /\ r.err.kind = "DocumentNotFound"
          [] OTHER -> FALSE

C3_Scenario ==
    \A t \in Tasks :
        (task[t].pc = "done" /\ task[t].nfault = 0) => ScenarioExpected(t)

C3_Witness ==
    \E t \in Tasks :
        /\ task[t].pc = "done"
        /\ scen.stage = 6
        /\ faults = 0
        /\ task[t].res = Err(StoreErr("DocumentNotFound"))
        /\ ~store["b1"][scen.key].ex

\* C4: a get_documents call in which the read of at least one key failed
\* returns an error, and the error map it embeds has every key whose read
\* failed, every key missing from the bucket among them.
C4_BatchNamesEveryFailedKey ==
    \A t \in Tasks :
        (Done(t, "batch") /\ task[t].failed # {}) =>
            /\ ~task[t].res.ok
            /\ task[t].res.err.kind = "BatchError"
            /\ task[t].res.err.keys = task[t].keys
            /\ task[t].failed \subseteq DOMAIN task[t].res.err.errors
            /\ \A k \in KeySet(task[t].keys) :
                   ~task[t].st0[k].ex => k \in DOMAIN task[t].res.err.errors

C4_Witness ==
    \E t \in Tasks :
        /\ Done(t, "batch")
        /\ task[t].failed = Keys
        /\ task[t].nfault = 1
        /\ ~task[t].res.ok
        /\ DOMAIN task[t].res.err.errors = Keys

\* C5 (as claimed): a successful get_documents over keys that all exist,
\* with the bucket unwritten since the call started, returns for each key
\* exactly what get_document returns for it, for either with_cas.
AllExist(t) ==
    /\ task[t].keys # <<>>
    /\ \A k \in KeySet(task[t].keys) : task[t].st0[k].ex
    /\ store[task[t].bucket] = task[t].st0

C5_BatchEqualsGets ==
    \A t \in Tasks :
        (Done(t, "batch") /\ AllExist(t) /\ task[t].res.ok) =>
            task[t].res.val.m =
                [k \in KeySet(task[t].keys) |->
                    GetValue(store[task[t].bucket][k], task[t].withCas)]

\* C6: the keys of docs together with the keys of errors of a
\* get_documents_v2 result are exactly the keys requested.
C6_PartialCoversKeys ==
    \A t \in Tasks :
        (Done(t, "batchV2") /\ task[t].keys # <<>>) =>
            /\ task[t].res.ok
            /\ (DOMAIN task[t].res.val.docs) \cup (DOMAIN task[t].res.val.errors)
                   = KeySet(task[t].keys)

C6_Witness ==
    \E t \in Tasks :
        /\ Done(t, "batchV2")
        /\ Len(task[t].keys) = 2
        /\ DOMAIN task[t].res.val.docs = {"k1"}
        /\ DOMAIN task[t].res.val.errors = {"k2"}

\* C7 (as claimed): docs and errors of a get_documents_v2 result have no
\* key in common.
C7_PartialDisjoint ==
    \A t \in Tasks :
        (Done(t, "batchV2") /\ task[t].res.ok) =>
            (DOMAIN task[t].res.val.docs) \cap (DOMAIN task[t].res.val.errors) = {}

\* C8: get_documents_v2 with a non-empty key list returns success with
\* the docs and errors it gathered, whichever reads failed.
C8_PartialNeverFails ==
    \A t \in Tasks :
        (Done(t, "batchV2") /\ task[t].keys # <<>>) =>
            /\ task[t].res.ok
            /\ task[t].res.val = [t |-> "partial", docs |-> task[t].docs,
                                  errors |-> task[t].errors]
            /\ task[t].failed \subseteq DOMAIN task[t].res.val.errors

C8_Witness ==
    \E t \in Tasks :
        /\ Done(t, "batchV2")
        /\ Len(task[t].keys) = 2
        /\ task[t].failed = KeySet(task[t].keys)
        /\ task[t].res.ok
        /\ task[t].res.val.docs = <<>>
        /\ DOMAIN task[t].res.val.errors = Keys

\* C9 (as claimed): a successful call without an initial value on an
\* absent key stores 1 and returns "1", on a counter holding the integer
\* n stores n + 1 and returns its decimal string, and the stored value is
\* the value returned.
C9_CounterIncrements ==
    \A t \in Tasks :
        (Done(t, "counter") /\ task[t].init = NoInit /\ task[t].res.ok) =>
            LET pre == task[t].pre
                now == store[task[t].bucket][task[t].key]
            IN  /\ ~pre.ex => (task[t].res.val = Str(<<"1">>) /\ now.val = Num(1))
                /\ (pre.ex /\ pre.val.t = "num") =>
                       /\ task[t].res.val = Str(ToString(pre.val.n + 1))
                       /\ now.val = Num(pre.val.n + 1)
                /\ now.val.t = "num"
                /\ task[t].res.val = Str(ToString(now.val.n))

\* C10: a call with an explicit initial value v that succeeds has stored
\* the number v and returns the decimal string of v, whatever the key held;
\* it fails only when the upsert failed, and then the key is untouched.
C10_InitialValueResets ==
    \A t \in Tasks :
        (Done(t, "counter") /\ task[t].init # NoInit) =>
            LET now == store[task[t].bucket][task[t].key]
            IN  /\ task[t].res.ok =>
                       /\ now.val = Num(task[t].init)
                       /\ task[t].res.val = Str(ToString(task[t].init))
                       /\ ParseI64(task[t].res.val.s) = [ok |-> TRUE, n |-> task[t].init]
                /\ ~task[t].res.ok =>
                       /\ task[t].res.err = StoreErr("Timeout")
                       /\ now = task[t].pre
                /\ task[t].nfault = 0 => task[t].res.ok

C10_Witness ==
    \E t \in Tasks :
        /\ Done(t, "counter")
        /\ task[t].init = 2
        /\ task[t].pre.ex
        /\ task[t].pre.val = Str(<<"a">>)
        /\ task[t].res = Ok(Str(<<"2">>))
        /\ store[task[t].bucket][task[t].key].val = Num(2)

\* C11: once some handle is cached for a bucket and no first resolution of
\* it is under way any more, the cached handle stays: a resolution started
\* from then on finds the cache unchanged and returns the cached handle
\* without constructing one, however many handles the race constructed.
C11_CacheConvergence ==
    \A t \in Tasks :
        (task[t].op = "resolve" /\ task[t].cached # 0) =>
            /\ pool[task[t].bucket] = task[t].cached
            /\ ~Racing(task[t].bucket)
            /\ task[t].own = 0
            /\ task[t].pc \in {"body", "done"} => task[t].db = task[t].cached
            /\ task[t].pc = "done" =>
                   task[t].res = Ok([t |-> "handle", n |-> task[t].cached,
                                     s |-> <<>>])

C11_Witness ==
    \E t \in Tasks, u \in Tasks :
        /\ t # u
        /\ Done(t, "resolve") /\ Done(u, "resolve")
        /\ task[t].bucket = "b1" /\ task[u].bucket = "b1"
        /\ task[t].cached # 0
        /\ task[t].res.val.n = pool["b1"]
        /\ task[u].own # 0 /\ task[u].own # pool["b1"]
        /\ nHandles >= 2

\* The runs of Cluster::connect made for CB_CONNECTION, that is on behalf
\* of init_couchbase calls and bucket resolutions.
LazyConnects == connects - directs

\* C12: init_couchbase calls and resolutions have made Cluster::connect
\* run at most once, however many there were and whatever direct calls of
\* create_cluster_connection ran in between; a handle exists only when it
\* has run, and every handle was built from that one cluster.
C12_ConnectOnce ==
    /\ LazyConnects <= 1
    /\ LazyConnects = 1 <=> cluster = "ready"
    /\ nHandles > 0 => LazyConnects = 1
    /\ \A t \in Tasks : (task[t].own # 0 \/ task[t].db # 0) => LazyConnects = 1

C12_Witness ==
    /\ LazyConnects = 1
    /\ directs >= 1
    /\ pool["b1"] # 0 /\ pool["b2"] # 0
    /\ \E t \in Tasks, u \in Tasks :
          /\ Done(t, "resolve") /\ Done(u, "resolve")
          /\ task[t].bucket # task[u].bucket
          /\ task[t].db # task[u].db

\* C13: get_document of a key that holds no document (a key never written
\* among them) returns an error for either with_cas, DocumentNotFound
\* unless the read failed transiently, and leaves the key as it was.
C13_GetAbsentNotFound ==
    \A t \in Tasks :
        (Done(t, "get") /\ ~task[t].pre.ex) =>
            /\ ~task[t].res.ok
            /\ task[t].res.val = NoVal
            /\ task[t].res.err.kind \in {"DocumentNotFound", "Timeout"}
            /\ task[t].nfault = 0 => task[t].res = Err(StoreErr("DocumentNotFound"))
            /\ store[task[t].bucket][task[t].key] = task[t].pre

C13_Witness ==
    \E t \in Tasks :
        /\ Done(t, "get")
        /\ task[t].withCas
        /\ casCtr = 0
        /\ store = EmptyStore
        /\ task[t].res = Err(StoreErr("DocumentNotFound"))

\* C14: the retry state machine of add_document/replace_document.  With
\* retry argument N a call has made N - retry attempts before each attempt
\* and one more after it, so at most N + 1; it is in the delay only after
\* a failed attempt with retries left; it ends with success or with
\* retry = 0 after N + 1 failed attempts; and every step of the call
\* lowers its rank, so the call ends after finitely many steps.
Retrying(t) == task[t].op \in {"add", "replace"}

Rank(c) ==
    10 * c.retry +
        (CASE c.pc = "resolve" -> 9 [] c.pc = "rwait" -> 8 [] c.pc = "lookup" -> 7
           [] c.pc = "construct" -> 6 [] c.pc = "wlock" -> 5 [] c.pc = "wwait" -> 4
           [] c.pc = "insert" -> 3 [] c.pc = "body" -> 2 [] c.pc = "delay" -> 1
           [] OTHER -> 0)

RetryShape(t) ==
    LET c == task[t]
    IN  /\ c.retry \in 0..c.retry0
        /\ c.attempts <= c.retry0 + 1
        /\ Len(c.errs) = c.retry0 - c.retry + (IF c.pc = "delay" THEN 1 ELSE 0)
        /\ c.pc = "delay" => (c.attempts = c.retry0 - c.retry + 1 /\ c.retry > 0)
        /\ c.pc \notin {"delay", "done", "panicked"} =>
               c.attempts = c.retry0 - c.retry
        /\ c.pc = "done" =>
               /\ c.attempts = c.retry0 - c.retry + 1
               /\ ~c.res.ok => (c.retry = 0 /\ c.attempts = c.retry0 + 1)

C14_RetryStateMachine ==
    /\ [](\A t \in Tasks : Retrying(t) => RetryShape(t))
    /\ [][\A t \in Tasks :
             (Retrying(t) /\ task[t].pc \notin {"done", "panicked"}
                  /\ task'[t] # task[t]) =>
                 /\ Rank(task'[t]) < Rank(task[t])
                 /\ task'[t].attempts \in {task[t].attempts, task[t].attempts + 1}
                 /\ task[t].pc = "delay" =>
                        (task'[t].pc = "resolve" /\ task'[t].retry = task[t].retry - 1)]_vars

C14_Witness ==
    \E t \in Tasks :
        /\ Done(t, "replace")
        /\ task[t].api
        /\ task[t].retry0 = PublicRetries
        /\ task[t].attempts = PublicRetries + 1
        /\ task[t].retry = 0
        /\ ~task[t].res.ok

\* C15 (as claimed): an add_document/replace_document call that ends in
\* failure returns an error that carries the "retry limit reached" marker.
C15_RetryLimitMarker ==
    \A t \in Tasks :
        (Retrying(t) /\ task[t].pc = "done" /\ ~task[t].res.ok) =>
            task[t].res.err.marker

\* C20: add_document on a key that holds a document makes all
\* retry + 1 insert attempts, every one failing, with the sleep between
\* them, and returns failure; the document is untouched throughout.
C20_RetryOnExists ==
    \A t \in Tasks :
        (task[t].op = "add" /\ Running(t) /\ task[t].pre.ex) =>
            /\ store[task[t].bucket][task[t].key] = task[t].pre
            /\ task[t].pc = "done" =>
                   /\ ~task[t].res.ok
                   /\ task[t].attempts = task[t].retry0 + 1
                   /\ Len(task[t].errs) = task[t].retry0
                   /\ task[t].retry = 0
                   /\ task[t].nfault = 0 =>
                          /\ task[t].res.err.kind = "DocumentExists"
                          /\ \A j \in 1..Len(task[t].errs) :
                                 task[t].errs[j].kind = "DocumentExists"

C20_Witness ==
    \E t \in Tasks :
        /\ Done(t, "add")
        /\ task[t].pre.ex
        /\ task[t].retry0 = PublicRetries
        /\ task[t].attempts = PublicRetries + 1
        /\ task[t].nfault = 0
        /\ task[t].res.err.kind = "DocumentExists"
        /\ store[task[t].bucket][task[t].key] = task[t].pre

\* C16: get_documents and get_documents_v2 called with an empty key list
\* return the "Array of Keys need to be on length>0" error and have
\* issued no read.
C16_EmptyKeysRejected ==
    \A t \in Tasks :
        ((Done(t, "batch") \/ Done(t, "batchV2")) /\ task[t].keys = <<>>) =>
            /\ task[t].res = Err(EmptyKeysError)
            /\ task[t].attempts = 0
            /\ task[t].i = 0
            /\ task[t].nfault = 0

C16_Witness ==
    \E t \in Tasks :
        /\ Done(t, "batchV2")
        /\ task[t].keys = <<>>
        /\ task[t].res = Err(EmptyKeysError)
        /\ task[t].attempts = 0
        /\ store["b1"]["k1"].ex

\* C17: two calls without an initial value whose reads both returned the
\* seeded counter n both write n + 1 and both return the string of n + 1;
\* when theirs are the only two writes, n + 1 is what the key holds.
BothReadSeed(t, u) ==
    /\ t # u
    /\ Done(t, "counter") /\ Done(u, "counter")
    /\ task[t].res.ok /\ task[u].res.ok
    /\ task[t].seen.ex /\ task[t].seen.cas = SeedCas("k1")
    /\ task[u].seen = task[t].seen

C17_LostIncrement ==
    \A t \in Tasks, u \in Tasks :
        BothReadSeed(t, u) =>
            LET n == task[t].seen.val.n
            IN  /\ task[t].res = Ok(Str(ToString(n + 1)))
                /\ task[u].res = task[t].res
                /\ task[t].cnt = n + 1 /\ task[u].cnt = n + 1
                /\ casCtr = 2 => store["b1"]["k1"].val = Num(n + 1)

C17_Witness ==
    \E t \in Tasks, u \in Tasks :
        /\ BothReadSeed(t, u)
        /\ faults = 0
        /\ casCtr = 2
        /\ task[t].pre.val = Num(1)
        /\ task[t].res = Ok(Str(<<"2">>))
        /\ task[u].res = Ok(Str(<<"2">>))
        /\ store["b1"]["k1"].val = Num(2)

\* C18 (as claimed): a call without an initial value on a document that is
\* neither a number nor a string that parses as an integer, its read
\* having succeeded, returns the format error and leaves the document as
\* it was.
Numeric(v) == v.t = "num" \/ (v.t = "str" /\ ParseI64(v.s).ok)

C18_FormatError ==
    \A t \in Tasks :
        (Done(t, "counter") /\ task[t].init = NoInit /\ task[t].seen.ex
             /\ ~Numeric(task[t].seen.val)) =>
            /\ task[t].res = Err(InvalidCounterFormat)
            /\ store[task[t].bucket][task[t].key] = task[t].pre

\* C19 (as claimed): a call without an initial value on a counter that
\* holds n > 1 never leaves the key holding 1; when it succeeds it returns
\* more than n.
C19_FreshOnlyWhenAbsent ==
    \A t \in Tasks :
        (Done(t, "counter") /\ task[t].init = NoInit /\ task[t].pre.ex
             /\ task[t].pre.val.t = "num" /\ task[t].pre.val.n > 1) =>
            /\ store[task[t].bucket][task[t].key].val # Num(1)
            /\ task[t].res.ok =>
                   (ParseI64(task[t].res.val.s).ok
                        /\ ParseI64(task[t].res.val.s).n > task[t].pre.val.n)

\* C21: get_document and delete_data issue one store call: a call of either
\* is never in the retry delay, has issued at most one store call, and
\* has returned after exactly one; when that call failed the result is
\* its error.
C21_SingleAttempt ==
    \A t \in Tasks :
        (task[t].op \in {"get", "remove"}) =>
            /\ task[t].pc # "delay"
            /\ task[t].errs = <<>>
            /\ task[t].attempts <= 1
            /\ task[t].pc = "done" <=> task[t].attempts = 1
            /\ (task[t].pc = "done" /\ task[t].nfault = 1) =>
                   task[t].res = Err(StoreErr("Timeout"))
            /\ (task[t].pc = "done" /\ ~task[t].pre.ex /\ task[t].nfault = 0) =>
                   task[t].res = Err(StoreErr("DocumentNotFound"))

C21_Witness ==
    \E t \in Tasks :
        /\ Done(t, "remove")
        /\ task[t].pre.ex
        /\ task[t].nfault = 1
        /\ task[t].attempts = 1
        /\ task[t].res = Err(StoreErr("Timeout"))
        /\ store[task[t].bucket][task[t].key] = task[t].pre

\* C22: get_documents with a non-empty key list reads the elements of the
\* list one by one in the order given, failed reads included, and returns
\* after the last; it fails exactly when a read failed, and then returns
\* the error with the key list and the error map and no document.
C22_BatchReadsAllInOrder ==
    \A t \in Tasks :
        (task[t].op = "batch" /\ task[t].keys # <<>>) =>
            /\ task[t].i <= Len(task[t].keys)
            /\ task[t].order = SubSeq(task[t].keys, 1, task[t].i)
            /\ task[t].attempts = task[t].i
            /\ task[t].pc = "done" =>
                   /\ task[t].order = task[t].keys
                   /\ task[t].res.ok <=> task[t].failed = {}
                   /\ task[t].res.ok =>
                          DOMAIN task[t].res.val.m = KeySet(task[t].keys)
                   /\ ~task[t].res.ok =>
                          /\ task[t].res.val = NoVal
                          /\ task[t].res.err =
                                 BatchError(task[t].keys, task[t].errors)
                          /\ DOMAIN task[t].res.err.errors = task[t].failed

C22_Witness ==
    \E t \in Tasks :
        /\ Done(t, "batch")
        /\ task[t].keys = <<"k2", "k1">>
        /\ task[t].order = <<"k2", "k1">>
        /\ task[t].failed = {"k2"}
        /\ task[t].docs # <<>>
        /\ ~task[t].res.ok

\* C23 (as claimed): when the cluster connection cannot be set up (a
\* COUCHBASE_* variable is missing) no call panics; a call that needed a
\* bucket handle returns a connection error, has no handle and has issued
\* no store call.
ConnectionError ==
    [kind |-> "ConnectionError", marker |-> FALSE, ctx |-> "resolve", prefix |-> ""]

C23_ConnectionErrorReturned ==
    \A t \in Tasks :
        ~envOk =>
            /\ task[t].pc # "panicked"
            /\ task[t].pc = "done" =>
                   /\ ~task[t].res.ok
                   /\ task[t].res.err.kind = "ConnectionError"
                   /\ task[t].attempts = 0

\* C24 (as claimed): a cached handle is never removed and never replaced
\* by another: no step changes a cache entry that holds a handle.
C24_CacheEntryStable ==
    [][\A b \in Buckets : pool[b] # 0 => pool'[b] = pool[b]]_vars

\* C25: a resolution that started when a handle was cached for its bucket
\* (so after any earlier resolution of it returned) never constructs a
\* handle, never asks for the write lock, and returns a handle that came
\* from the cache.
C25_HitUnderReadLock ==
    \A t \in Tasks :
        (task[t].op = "resolve" /\ task[t].warm) =>
            /\ task[t].pc \notin {"construct", "wlock", "wwait", "insert", "panicked"}
            /\ task[t].own = 0
            /\ rw.writer # t
            /\ task[t].pc \in {"body", "done"} => task[t].db \in 1..nHandles
            /\ task[t].pc = "done" =>
                   task[t].res = Ok([t |-> "handle", n |-> task[t].db, s |-> <<>>])

C25_Witness ==
    \E t \in Tasks :
        /\ Done(t, "resolve")
        /\ task[t].warm
        /\ task[t].cached = 0
        /\ task[t].own = 0
        /\ task[t].db # pool[task[t].bucket]
        /\ task[t].res.val.n = task[t].db

\* C26: under fair scheduling every resolution that starts comes to its
\* end; only a task at the lookup holds the read lock, so none waits for
\* the write lock or constructs a handle with it; the write lock is held
\* at the insert only; and readers and a writer exclude each other.
LockDiscipline ==
    /\ \A t \in Tasks :
          /\ t \in rw.readers <=> task[t].pc = "lookup"
          /\ rw.writer = t <=> task[t].pc = "insert"
    /\ rw.writer # 0 => rw.readers = {}
    /\ \A j \in 1..Len(rw.queue) : task[rw.queue[j]].pc \in {"rwait", "wwait"}

C26_ResolveTerminates ==
    /\ []LockDiscipline
    /\ \A t \in Tasks :
          (task[t].pc = "resolve") ~> (task[t].pc \in {"done", "panicked"})

C26_Witness ==
    \E t \in Tasks, u \in Tasks :
        /\ task[t].pc = "wwait"
        /\ task[u].pc = "lookup"
        /\ task[t].bucket # task[u].bucket
        /\ rw.queue = <<t>>

\* C27: of the add_document calls made for one absent key, with nothing
\* removing it, at most one returns success; a call that returns failure
\* has made all its retry + 1 attempts; the key holds a document only
\* once a call has succeeded, and then that call's value; and when all
\* the calls made have returned and no insert failed transiently, exactly
\* one has succeeded.
Adders == {t \in Tasks : task[t].op = "add"}
Winners == {t \in Adders : task[t].pc = "done" /\ task[t].res.ok}

C27_OneAddWins ==
    /\ Cardinality(Winners) <= 1
    /\ \A t \in Adders :
          (task[t].pc = "done" /\ ~task[t].res.ok) =>
              (task[t].attempts = task[t].retry0 + 1 /\ task[t].retry = 0)
    /\ store["b1"]["k1"].ex <=>
          \E t \in Winners : store["b1"]["k1"].val = task[t].val
    /\ (Adders # {} /\ faults = 0 /\ \A t \in Adders : task[t].pc = "done") =>
          Cardinality(Winners) = 1

C27_Witness ==
    \E t \in Tasks, u \in Tasks :
        /\ Winners = {t}
        /\ Done(u, "add") /\ ~task[u].res.ok
        /\ task[u].retry0 >= 1
        /\ task[u].attempts = task[u].retry0 + 1
        /\ ~task[u].pre.ex
        /\ task[u].val # task[t].val
        /\ store["b1"]["k1"].val = task[t].val
        /\ faults = 0

\* The contents the bucket has had between the start of task t's batch
\* read and now.
Snapshots(t) == {task[t].st0} \cup lastAdd.hist

BatchDocs(t) ==
    IF task[t].op = "batch" THEN task[t].res.val.m ELSE task[t].res.val.docs

\* C28 (as claimed): the documents a successful batch read returns are the
\* documents the bucket held for the keys they are returned for at one
\* instant between the start and the end of the call.
C28_BatchIsSnapshot ==
    \A t \in Tasks :
        ((Done(t, "batch") \/ Done(t, "batchV2")) /\ task[t].res.ok) =>
            \E snap \in Snapshots(t) :
                \A k \in DOMAIN BatchDocs(t) :
                    /\ snap[k].ex
                    /\ BatchDocs(t)[k] = BatchValue(snap[k], task[t].withCas)

\* C28 (amended): each document a successful batch read returns is the
\* document the bucket held at its key at some instant between the start
\* and the end of the call, the instant depending on the key.
C28_BatchPerKeyInstant ==
    \A t \in Tasks :
        ((Done(t, "batch") \/ Done(t, "batchV2")) /\ task[t].res.ok) =>
            \A k \in DOMAIN BatchDocs(t) :
                \E snap \in Snapshots(t) :
                    /\ snap[k].ex
                    /\ BatchDocs(t)[k] = BatchValue(snap[k], task[t].withCas)

C28_Witness ==
    \E t \in Tasks :
        /\ Done(t, "batch")
        /\ task[t].res.ok
        /\ task[t].withCas
        /\ DOMAIN BatchDocs(t) = Keys
        /\ Cardinality(lastAdd.hist) = 2
        /\ BatchDocs(t)["k1"] = BatchValue(task[t].st0["k1"], TRUE)
        /\ BatchDocs(t)["k2"] = BatchValue(store["b1"]["k2"], TRUE)
        /\ store["b1"]["k1"] # task[t].st0["k1"]
        /\ store["b1"]["k2"] # task[t].st0["k2"]

\* C29: a get_documents call and a get_documents_v2 call that ran on the
\* same non-empty key list and the same with_cas and whose reads were
\* answered alike, one by one: get_documents succeeded exactly when
\* get_documents_v2 returned no errors; then its result is the docs
\* mapping of get_documents_v2, and otherwise the error mapping it reports
\* has the keys (and entries) of the errors mapping of get_documents_v2.
C29_VariantsAgree ==
    \A t \in Tasks, u \in Tasks :
        (/\ Done(t, "batch")
         /\ Done(u, "batchV2")
         /\ task[t].keys = task[u].keys
         /\ task[t].keys # <<>>
         /\ task[t].withCas = task[u].withCas
         /\ task[t].outs = task[u].outs) =>
            LET strict == task[t].res
                partial == task[u].res
            IN  /\ partial.ok
                /\ strict.ok <=> partial.val.errors = <<>>
                /\ strict.ok => strict.val.m = partial.val.docs
                /\ ~strict.ok =>
                      /\ strict.err.kind = "BatchError"
                      /\ DOMAIN strict.err.errors = DOMAIN partial.val.errors
                      /\ strict.err.errors = partial.val.errors

C29_Witness ==
    \E t \in Tasks, u \in Tasks :
        /\ Done(t, "batch")
        /\ Done(u, "batchV2")
        /\ task[t].keys = <<"k1", "k2">>
        /\ task[u].keys = <<"k1", "k2">>
        /\ task[t].withCas = task[u].withCas
        /\ task[t].outs = task[u].outs
        /\ ~task[t].res.ok
        /\ DOMAIN task[t].res.err.errors = {"k1"}
        /\ DOMAIN task[u].res.val.errors = {"k1"}
        /\ DOMAIN task[u].res.val.docs = {"k2"}

\* C30: an add_document/replace_document call started with retry >= 1 that
\* fails has made every attempt, and the error it returns is the error of
\* its own first attempt (through the public entry points, under their
\* "Couchbase error: " prefix), without the retry limit marker; the errors
\* of the later attempts are not returned.
C30_FirstAttemptError ==
    \A t \in Tasks :
        (/\ Done(t, "add") \/ Done(t, "replace")
         /\ ~task[t].res.ok
         /\ task[t].retry0 >= 1) =>
            /\ task[t].attempts = task[t].retry0 + 1
            /\ Len(task[t].errs) = task[t].retry0
            /\ task[t].res = Public(t, Err(task[t].errs[1]))
            /\ task[t].res.err.kind = task[t].errs[1].kind
            /\ ~task[t].res.err.marker

C30_Witness ==
    \E t \in Tasks :
        /\ Done(t, "add")
        /\ ~task[t].res.ok
        /\ task[t].retry0 = 1
        /\ task[t].attempts = 2
        /\ task[t].nfault = 1
        /\ task[t].errs[1].kind = "Timeout"
        /\ task[t].res.err.kind = "Timeout"
        /\ store[task[t].bucket][task[t].key].ex

\* C31 (as claimed): a get_documents/get_documents_v2 call rejected for an
\* empty key list has left the shared state as it found it: the cache
\* entry of its bucket is the one of the start of the call, the call has
\* constructed no handle, and the bucket's documents are unchanged.
C31_EmptyKeysNoEffect ==
    \A t \in Tasks :
        (/\ Done(t, "batch") \/ Done(t, "batchV2")
         /\ task[t].keys = <<>>
         /\ task[t].res = Err(EmptyKeysError)) =>
            /\ pool[task[t].bucket] = task[t].cached
            /\ task[t].own = 0
            /\ store[task[t].bucket] = task[t].st0

====
